---- MODULE Spec2Model ----
(***************************************************************************)
(* Model of src/app.py, the AACE Compass chat front-end.                   *)
(*                                                                         *)
(* The script is re-run from top to bottom on every UI event.  One run     *)
(* probes the health endpoint (lines 45-55), renders the stored transcript *)
(* (lines 61-70), handles a submitted question (lines 76-106) and handles  *)
(* the Clear button (lines 108-111).  The only point where a run waits on  *)
(* the outside world without a timeout is requests.post (line 24), so a    *)
(* submission is split there: Submit runs the script up to the POST,       *)
(* Respond runs it from the POST's outcome to the end of the run.          *)
(*                                                                         *)
(* Python dicts are records with explicit presence flags for the keys the  *)
(* code tests with "in" / .get; a score is an integer in units of 1e-5 and *)
(* a displayed score ("%.4f") an integer in units of 1e-4.                 *)
(***************************************************************************)
EXTENDS Integers, Sequences, FiniteSets, TLC

\* ---------------------------------------------------------------- bounds
MaxSubmissions == 2   \* submissions between two Clears
MaxSources     == 2   \* length of a "sources" list in a response body

\* ------------------------------------------------------------- constants
HTTP_OK == 200

ERROR_ANSWER   == "Sorry, I encountered an error processing your request."
CONNECT_ANSWER == "Sorry, I couldn't connect to the backend service."

\* ---------------------------------------------------------------- inputs
Questions == {"q1", "q2"}

SeqsUpTo(S, n) == UNION {[1..k -> S] : k \in 0..n}

Source(text, score, hasScore) ==
    [text |-> text, score |-> score, hasScore |-> hasScore]

\* two well-formed sources and one without a "score" key
GoodSources == {Source("A", 91234, TRUE), Source("B", 50006, TRUE)}
BadSources  == {Source("C", 0, FALSE)}
Sources     == GoodSources \cup BadSources

Dict(hasAnswer, answer, hasSources, sources) ==
    [hasAnswer |-> hasAnswer, answer |-> answer,
     hasSources |-> hasSources, sources |-> sources]

EmptyDict == Dict(FALSE, "", FALSE, <<>>)

\* a response body: parses says whether response.json() succeeds, json is
\* the parsed value
Body(parses, json) == [parses |-> parses, json |-> json]

Unparsable == Body(FALSE, EmptyDict)

Bodies ==
    {Unparsable, Body(TRUE, EmptyDict), Body(TRUE, Dict(TRUE, "X", FALSE, <<>>))}
    \cup {Body(TRUE, Dict(TRUE, "X", TRUE, s)) : s \in SeqsUpTo(Sources, MaxSources)}

\* bodies sent with a non-200 status
ErrorBodies == {b \in Bodies : Len(b.json.sources) <= 1}

\* outcomes of requests.post(API_URL, ...)
PostOutcomes ==
    {[kind |-> "http", code |-> HTTP_OK, body |-> b] : b \in Bodies}
    \cup {[kind |-> "http", code |-> 500, body |-> b] : b \in ErrorBodies}
    \cup {[kind |-> "exception", code |-> 0, body |-> Unparsable]}

\* outcomes of requests.get(".../health", timeout=2)
HealthOutcomes ==
    {[kind |-> "http", code |-> c] : c \in {HTTP_OK, 503}}
    \cup {[kind |-> "timeout", code |-> 0]}

NoReply == [kind |-> "none", code |-> 0, body |-> Unparsable]
NoAlert == [kind |-> "none", code |-> 0]

\* ----------------------------------------------------------------- state
VARIABLES
    messages,         \* st.session_state.messages
    server_status,    \* the banner written to server_status in this run
    health_response,  \* the outcome of this run's health probe
    screen,           \* chat messages displayed by the current run, in order
    nHistory,         \* how many of them the render loop (61-70) displayed
    alert,            \* st.error shown by query_rag_system in this run
    uncaught,         \* the run ended in an uncaught exception
    pc,               \* "idle" or "dispatching" (blocked in requests.post)
    inflight,         \* query requests issued and not yet resolved
    hung,             \* the backend holds the request and never answers
    reply,            \* outcome of the POST handled by the latest Respond
    submitted,        \* submissions since the last Clear
    posted,           \* query requests issued since the last Clear
    lastEvent         \* the latest event and the turns it removed

vars == <<messages, server_status, health_response, screen, nHistory, alert,
          uncaught, pc, inflight, hung, reply, submitted, posted, lastEvent>>

Event(name, removed) == [name |-> name, removed |-> removed]

\* ----------------------------------------------------- connectivity probe
Status(kind, code, hint) == [kind |-> kind, code |-> code, hint |-> hint]

\* variant: any HTTP response counts as connected
ServerStatusAnyHttp(h) ==
    IF h.kind = "http"
    THEN Status("Connected", 0, FALSE)
    ELSE Status("ConnectionFailed", 0, TRUE)

ServerStatus(h) ==
    IF h.kind = "http"
    THEN IF h.code = HTTP_OK
         THEN Status("Connected", 0, FALSE)
         ELSE Status("ServerError", h.code, FALSE)
    ELSE Status("ConnectionFailed", 0, TRUE)

\* ------------------------------------------------------- query dispatcher
\* variant: the request is sent a second time
RequestsPostTwice(user_query) ==
    <<[url |-> "/api/query", query |-> user_query],
      [url |-> "/api/query", query |-> user_query]>>

RequestsPost(user_query) ==
    <<[url |-> "/api/query", query |-> user_query]>>

\* variant: the status code is not tested before response.json()
query_rag_system_NoStatusTest(o) ==
    IF o.kind = "http" /\ o.body.parses
    THEN [response |-> o.body.json, alert |-> NoAlert]
    ELSE [response |-> Dict(TRUE, CONNECT_ANSWER, FALSE, <<>>),
          alert |-> [kind |-> "Exception", code |-> 0]]

\* variant: the except branch returns the answer of the else branch
query_rag_system_OneApology(o) ==
    IF o.kind = "http" /\ o.code = HTTP_OK /\ o.body.parses
    THEN [response |-> o.body.json, alert |-> NoAlert]
    ELSE [response |-> Dict(TRUE, ERROR_ANSWER, FALSE, <<>>),
          alert |-> [kind |-> "Error", code |-> o.code]]

query_rag_system(o) ==
    IF o.kind = "http"
    THEN IF o.code = HTTP_OK
         THEN IF o.body.parses
              THEN [response |-> o.body.json, alert |-> NoAlert]
              ELSE [response |-> Dict(TRUE, CONNECT_ANSWER, FALSE, <<>>),
                    alert |-> [kind |-> "Exception", code |-> 0]]
         ELSE [response |-> Dict(TRUE, ERROR_ANSWER, FALSE, <<>>),
               alert |-> [kind |-> "Error", code |-> o.code]]
    ELSE [response |-> Dict(TRUE, CONNECT_ANSWER, FALSE, <<>>),
          alert |-> [kind |-> "Exception", code |-> 0]]

\* ------------------------------------------------------------- rendering
\* f"{score:.4f}": 1e-5 units rounded to 1e-4 units
FormatScore(score) == (score + 5) \div 10

SourceEntry(i, source) ==
    [index |-> i, score |-> FormatScore(source.score), text |-> source.text]

SourceEntries(sources, n) == [i \in 1..n |-> SourceEntry(i, sources[i])]

ChatMessage(role, content, expander, entries) ==
    [role |-> role, content |-> content, expander |-> expander,
     entries |-> entries]

\* body of the render loop, lines 63-70
RenderMessage(message) ==
    IF message.role = "assistant" /\ message.hasSources
    THEN ChatMessage(message.role, message.content, TRUE,
                     SourceEntries(message.sources, Len(message.sources)))
    ELSE ChatMessage(message.role, message.content, FALSE, <<>>)

RenderTranscript(msgs) == [i \in 1..Len(msgs) |-> RenderMessage(msgs[i])]

\* lines 81-82
RenderUserInline(user_query) == ChatMessage("user", user_query, FALSE, <<>>)

FirstBad(sources) ==
    LET bad == {i \in 1..Len(sources) : ~sources[i].hasScore}
    IN  IF bad = {} THEN 0
        ELSE CHOOSE i \in bad : \A j \in bad : i <= j

\* lines 90-99; raised = a KeyError escaped (line 91 or line 97), element =
\* what had been displayed by then
RenderAssistantInline(response) ==
    IF ~response.hasAnswer
    THEN [raised |-> TRUE, element |-> ChatMessage("assistant", "", FALSE, <<>>)]
    ELSE IF ~response.hasSources
    THEN [raised |-> FALSE,
          element |-> ChatMessage("assistant", response.answer, FALSE, <<>>)]
    ELSE IF FirstBad(response.sources) = 0
    THEN [raised |-> FALSE,
          element |-> ChatMessage("assistant", response.answer, TRUE,
                        SourceEntries(response.sources, Len(response.sources)))]
    ELSE [raised |-> TRUE,
          element |-> ChatMessage("assistant", response.answer, TRUE,
                        SourceEntries(response.sources,
                                      FirstBad(response.sources) - 1))]

\* ----------------------------------------------------------------- turns
\* line 78
UserTurn(user_query) ==
    [role |-> "user", content |-> user_query, hasSources |-> FALSE,
     sources |-> <<>>]

Reverse(s) == [i \in 1..Len(s) |-> s[Len(s) + 1 - i]]

\* variant: the sources are stored in reverse order
AssistantTurnReversed(response) ==
    [role |-> "assistant", content |-> response.answer, hasSources |-> TRUE,
     sources |-> IF response.hasSources THEN Reverse(response.sources) ELSE <<>>]

\* lines 102-106
AssistantTurn(response) ==
    [role |-> "assistant", content |-> response.answer, hasSources |-> TRUE,
     sources |-> IF response.hasSources THEN response.sources ELSE <<>>]

\* variant: only the latest exchange is removed
ClearLastExchange(msgs) ==
    IF Len(msgs) > 2 THEN SubSeq(msgs, 1, Len(msgs) - 2) ELSE <<>>

\* line 110
ClearChatHistory(msgs) == <<>>

\* ------------------------------------------------------------------ Init
\* the state after the first run of the script for a new session
Init ==
    /\ messages = <<>>
    /\ health_response \in HealthOutcomes
    /\ server_status = ServerStatus(health_response)
    /\ screen = <<>>
    /\ nHistory = 0
    /\ alert = NoAlert
    /\ uncaught = FALSE
    /\ pc = "idle"
    /\ inflight = <<>>
    /\ hung = FALSE
    /\ reply = NoReply
    /\ submitted = 0
    /\ posted = 0
    /\ lastEvent = Event("load", 0)

\* --------------------------------------------------------------- actions
\* a run with no widget event (lines 45-70, nothing submitted or clicked)
Rerun(h) ==
    /\ pc = "idle"
    /\ health_response' = h
    /\ server_status' = ServerStatus(h)
    /\ screen' = RenderTranscript(messages)
    /\ nHistory' = Len(messages)
    /\ alert' = NoAlert
    /\ uncaught' = FALSE
    /\ reply' = NoReply
    /\ lastEvent' = Event("rerun", 0)
    /\ UNCHANGED <<messages, pc, inflight, hung, submitted, posted>>

\* a run with user_query set, up to the call of requests.post (lines 45-87,
\* 22-28)
Submit(user_query, h) ==
    /\ pc = "idle"
    /\ user_query # ""
    /\ submitted < MaxSubmissions
    /\ health_response' = h
    /\ server_status' = ServerStatus(h)
    /\ screen' = Append(RenderTranscript(messages), RenderUserInline(user_query))
    /\ nHistory' = Len(messages)
    /\ messages' = Append(messages, UserTurn(user_query))
    /\ inflight' = inflight \o RequestsPost(user_query)
    /\ posted' = posted + Len(RequestsPost(user_query))
    /\ submitted' = submitted + 1
    /\ alert' = NoAlert
    /\ uncaught' = FALSE
    /\ reply' = NoReply
    /\ pc' = "dispatching"
    /\ lastEvent' = Event("submit", 0)
    /\ UNCHANGED hung

\* requests.post returns or raises with outcome o; the run continues to its
\* end (lines 29-38, 89-106)
Respond(o) ==
    /\ pc = "dispatching"
    /\ ~hung
    /\ inflight # <<>>
    /\ LET r     == query_rag_system(o)
           shown == RenderAssistantInline(r.response)
       IN  /\ alert' = r.alert
           /\ screen' = Append(screen, shown.element)
           /\ uncaught' = shown.raised
           /\ messages' = IF shown.raised
                          THEN messages
                          ELSE Append(messages, AssistantTurn(r.response))
    /\ inflight' = Tail(inflight)
    /\ reply' = o
    /\ pc' = "idle"
    /\ lastEvent' = Event("respond", 0)
    /\ UNCHANGED <<server_status, health_response, nHistory, hung, submitted,
                   posted>>

\* the backend accepts the POST and never answers: requests.post has no
\* timeout (lines 24-28), so the run stays blocked
BackendHang ==
    /\ pc = "dispatching"
    /\ ~hung
    /\ hung' = TRUE
    /\ lastEvent' = Event("hang", 0)
    /\ UNCHANGED <<messages, server_status, health_response, screen, nHistory,
                   alert, uncaught, pc, inflight, reply, submitted, posted>>

\* a run with the Clear button clicked (probe outcome h1, lines 45-70 and
\* 108-111) and the run st.rerun() starts (probe outcome h2)
Clear(h1, h2) ==
    /\ pc = "idle"
    /\ messages' = ClearChatHistory(messages)
    /\ health_response' = h2
    /\ server_status' = ServerStatus(h2)
    /\ screen' = RenderTranscript(messages')
    /\ nHistory' = Len(messages')
    /\ alert' = NoAlert
    /\ uncaught' = FALSE
    /\ reply' = NoReply
    /\ submitted' = 0
    /\ posted' = 0
    /\ lastEvent' = Event("clear", Len(messages) - Len(messages'))
    /\ UNCHANGED <<pc, inflight, hung>>

Next ==
    \/ \E h \in HealthOutcomes : Rerun(h)
    \/ \E q \in Questions, h \in HealthOutcomes : Submit(q, h)
    \/ \E o \in PostOutcomes : Respond(o)
    \/ BackendHang
    \/ \E h1, h2 \in HealthOutcomes : Clear(h1, h2)

Spec == Init /\ [][Next]_vars

\* the script thread runs on as soon as requests.post returns, and a backend
\* that has not hung answers
FairSpec == Spec /\ WF_vars(\E o \in PostOutcomes : Respond(o))

\* ---------------------------------------------------------------- claims
LastMessage == messages[Len(messages)]

Responded == lastEvent.name = "respond"

\* C1: after N completed submissions with no Clear in between the transcript
\* has exactly 2N turns, alternating user, assistant, ... from a user turn,
\* whatever the backend outcome of each submission was.
C1_TwoTurnsPerSubmission ==
    pc = "idle" =>
        /\ Len(messages) = 2 * submitted
        /\ \A i \in 1..Len(messages) :
              messages[i].role = IF i % 2 = 1 THEN "user" ELSE "assistant"

\* C2: Clear leaves the transcript with length 0 whatever it held, and the
\* render that follows shows an empty transcript.
C2_ClearEmptiesTranscript ==
    lastEvent.name = "clear" =>
        /\ Len(messages) = 0
        /\ screen = <<>>
        /\ nHistory = 0

C2_Witness ==
    /\ lastEvent.name = "clear"
    /\ lastEvent.removed = 2 * MaxSubmissions
    /\ Len(messages) = 0

\* C3: a non-200 status on the query endpoint gives an assistant turn with
\* the fixed error apology and no sources, whatever the response body is.
C3_Non200Fallback ==
    (Responded /\ reply.kind = "http" /\ reply.code # HTTP_OK) =>
        /\ Len(messages) > 0
        /\ LastMessage.role = "assistant"
        /\ LastMessage.content = ERROR_ANSWER
        /\ LastMessage.sources = <<>>

C3_Witness ==
    /\ Responded
    /\ reply.kind = "http" /\ reply.code = 500
    /\ reply.body.parses /\ reply.body.json.hasAnswer
    /\ Len(reply.body.json.sources) > 0
    /\ Len(messages) > 0
    /\ LastMessage.content = ERROR_ANSWER

\* C4: an exception inside the dispatcher (transport failure, or a 200 whose
\* body does not parse) gives an assistant turn with the fixed connection
\* apology and no sources.
C4_ExceptionFallback ==
    (Responded /\ (reply.kind = "exception"
                   \/ (reply.kind = "http" /\ reply.code = HTTP_OK
                       /\ ~reply.body.parses))) =>
        /\ Len(messages) > 0
        /\ LastMessage.role = "assistant"
        /\ LastMessage.content = CONNECT_ANSWER
        /\ LastMessage.sources = <<>>

C4_Witness ==
    /\ Responded
    /\ reply.kind = "http" /\ reply.code = HTTP_OK /\ ~reply.body.parses
    /\ Len(messages) = 2 * MaxSubmissions
    /\ LastMessage.content = CONNECT_ANSWER
    /\ messages[2].content = CONNECT_ANSWER

WellShaped(json) ==
    /\ json.hasAnswer
    /\ \A i \in 1..Len(json.sources) : json.sources[i].hasScore

\* C5: a 200 with a body {answer, sources?} gives an assistant turn whose
\* content is the received answer and whose sources are the received ones in
\* the received order, or none when the body has no sources field.
C5_SuccessTurn ==
    (Responded /\ reply.kind = "http" /\ reply.code = HTTP_OK
     /\ reply.body.parses /\ WellShaped(reply.body.json)) =>
        /\ Len(messages) > 0
        /\ LastMessage.role = "assistant"
        /\ LastMessage.content = reply.body.json.answer
        /\ LastMessage.sources = IF reply.body.json.hasSources
                                 THEN reply.body.json.sources
                                 ELSE <<>>

C5_Witness ==
    /\ Responded
    /\ reply.kind = "http" /\ reply.code = HTTP_OK /\ reply.body.parses
    /\ WellShaped(reply.body.json)
    /\ Len(reply.body.json.sources) = 2
    /\ reply.body.json.sources[1].score < reply.body.json.sources[2].score
    /\ Len(messages) > 0
    /\ LastMessage.sources = reply.body.json.sources

\* C6: the connectivity status of a render is decided by that render's probe
\* alone: 200 gives Connected, another status ServerError with that code, a
\* timeout or transport failure ConnectionFailed with the hint.
C6_ProbeDecidesStatus ==
    /\ (health_response.kind = "http" /\ health_response.code = 200) =>
           server_status.kind = "Connected"
    /\ (health_response.kind = "http" /\ health_response.code # 200) =>
           /\ server_status.kind = "ServerError"
           /\ server_status.code = health_response.code
    /\ health_response.kind # "http" =>
           /\ server_status.kind = "ConnectionFailed"
           /\ server_status.hint

C6_Witness ==
    /\ health_response.kind = "http" /\ health_response.code = 503
    /\ server_status.kind = "ServerError" /\ server_status.code = 503
    /\ Len(messages) = 2
    /\ lastEvent.name = "rerun"

\* C7: each submission issues exactly one query request, whatever the probe
\* reported and whatever the outcome, and at most one is outstanding.
C7_OneRequestPerSubmission ==
    /\ posted = submitted
    /\ Len(inflight) <= 1
    /\ (pc = "dispatching") <=> (Len(inflight) = 1)

C7_Witness ==
    /\ pc = "dispatching"
    /\ server_status.kind = "ConnectionFailed"
    /\ submitted = 2 /\ posted = 2
    /\ Len(inflight) = 1
    /\ messages[2].content = ERROR_ANSWER

\* C8: every submission eventually completes: once the request is issued the
\* assistant turn is appended and the controller is Idle again.
C8_SubmissionCompletes ==
    [](pc = "dispatching" =>
          <>(/\ pc = "idle"
             /\ Len(messages) > 0
             /\ LastMessage.role = "assistant"))

\* C9: the render loop shows a "View Sources" section for an assistant turn
\* if and only if the turn's source sequence is non-empty, with one entry per
\* source, numbered 1, 2, ... in sequence order.
C9_SourcesSectionIffNonEmpty ==
    \A i \in 1..nHistory :
        messages[i].role = "assistant" =>
            /\ screen[i].expander <=> (Len(messages[i].sources) > 0)
            /\ Len(screen[i].entries) = Len(messages[i].sources)
            /\ \A k \in 1..Len(screen[i].entries) :
                  /\ screen[i].entries[k].index = k
                  /\ screen[i].entries[k].text = messages[i].sources[k].text

\* C10: what the run that handles a submission shows for the new exchange is
\* what the render loop shows for the same two turns on a later re-render.
C10_InlineMatchesRerender ==
    (Responded /\ ~uncaught) =>
        \A i \in (nHistory + 1)..Len(messages) :
            /\ i <= Len(screen)
            /\ screen[i] = RenderMessage(messages[i])

====
